---- MODULE Spec2Model ----
(***************************************************************************)
(* Model of srsrssrsbot: the feed record (feed.rs), the SQLite store       *)
(* (db.rs) and the two activities of main.rs: handle_updates (commands)    *)
(* and handle_feed (the dispatch loop).  Both activities are futures of    *)
(* one tokio::select!, so they interleave only at .await points: an action *)
(* of the model is the code between two suspension points.                 *)
(***************************************************************************)
EXTENDS Integers, Sequences, FiniteSets, TLC

\* ------------------------------------------------------------------ bounds
MaxTime == 1122         \* the clock saturates here
T0 == 1000              \* wall clock (seconds since the epoch) at first start
MaxMessages == 2        \* messages received by handle_updates
Overshoot == 1          \* a sleep returns this much after FETCH_FEEDS_DELAY
MaxId == 3              \* CheckSpec: the entry identifiers are 1..MaxId
MaxDoc == 2             \* CheckSpec: entries in a document

\* ------------------------------------------------------- program constants
VERSION == 1
FETCH_FEEDS_DELAY == 60
max_fetch_delay == 86400
min_fetch_delay == 60
default_fetch_delay == 600
EPOCH == 0

\* ------------------------------------------------------------ value spaces
Urls == {"u1", "u2"}
Users == {"a", "b"}
NoEtag == "none"        \* Option<String>::None
NoUrl == "nourl"        \* parse_url returned None

Min(a, b) == IF a < b THEN a ELSE b
Max(a, b) == IF a > b THEN a ELSE b
Range(s) == {s[i] : i \in 1..Len(s)}

\* ------------------------------------------------------------------ state
VARIABLES
    now,              \* the clock (Utc::now / Instant::now / SystemTime::now)
    proc,             \* main: "boot", "running", "stopped", "fatal"
    stopcause,        \* why the process stopped last
    version,          \* the version table of the database file
    disk,             \* committed content of the database file
    db,               \* content as seen through the one connection
    intxn,            \* the connection has an open transaction
    mutex,            \* holder of Database's Mutex, or "free"
    upc,              \* handle_updates: position
    msg,              \* handle_updates: the /add being handled
    reply,            \* handle_updates: text being sent or edited
    nmsg,             \* messages received so far
    fpc,              \* handle_feed: position
    feeds,            \* handle_feed: loaded feeds not yet visited
    cur,              \* handle_feed: the feed being visited
    response,         \* Feed::new, Feed::check: resp (CheckSpec)
    entries,          \* handle_feed: new entries of cur
    ei,               \* handle_feed: index of the entry being delivered
    ui,               \* handle_feed: index of the user being notified
    fail_count,
    updated_feeds,
    last_save_failed,
    polled,           \* history: what the cycle did with each url
    sends,            \* history: how the earlier sends of this entry ended
    saves             \* history: the batch-persists of this run that failed in a row

vars == <<now, proc, stopcause, version, disk, db, intxn, mutex,
          upc, msg, reply, nmsg,
          fpc, feeds, cur, response, entries, ei, ui, fail_count, updated_feeds,
          last_save_failed, polled, sends, saves>>

\* ------------------------------------------------------------------ feed.rs
\* A header of a response: absent, not valid UTF-8, or text.  The text of
\* Cache-Control is its comma-separated directives, each split at "=": the
\* key as written (case and leading blank kept), and the value: none (no
\* "="), not an i64, or the integer n.
Absent == [kind |-> "absent"]
NonUtf8 == [kind |-> "nonutf8"]
Directive(k, v, n) == [key |-> k, val |-> v, n |-> n]
CacheControl(dirs) == [kind |-> "text", dirs |-> dirs]
Expires(valid, t) == [kind |-> "text", valid |-> valid, t |-> t]
ETag(v) == [kind |-> "text", v |-> v]
Headers(cc, ex, et) == [cache_control |-> cc, expires |-> ex, etag |-> et]

Ok(v) == [ok |-> TRUE, v |-> v]
Err == [ok |-> FALSE]

\* header(): Ok(None), Ok(Some(text)) or Err(MalformedHeader)
header(h) == IF h.kind = "nonutf8" THEN Err ELSE Ok(h)

to_lowercase(k) == IF k = "Max-Age" THEN "max-age" ELSE k

\* cache_control.split(",").find_map(..): the first directive that has a
\* value and whose lowercased key is "max-age"; 0 when there is none
RECURSIVE FindMaxAge(_, _)
FindMaxAge(dirs, i) ==
    IF i > Len(dirs) THEN 0
    ELSE IF dirs[i].val # "none" /\ to_lowercase(dirs[i].key) = "max-age" THEN i
    ELSE FindMaxAge(dirs, i + 1)

\* a delay taken from the server as it is
Clamp_unbounded(delay) == delay

Clamp(delay) == Max(Min(delay, max_fetch_delay), min_fetch_delay)

find_expiry(headers, t) ==
    LET cc == headers.cache_control
        ex == headers.expires
    IN  IF ~header(cc).ok THEN Err
        ELSE IF cc.kind = "text" THEN
            LET i == FindMaxAge(cc.dirs, 1)
            IN  IF i = 0 THEN Ok(t + Clamp(default_fetch_delay))
                ELSE IF cc.dirs[i].val = "bad" THEN Err
                ELSE Ok(t + Clamp(cc.dirs[i].n))
        ELSE IF ~header(ex).ok THEN Err
        ELSE IF ex.kind = "text" THEN
            IF ~ex.valid THEN Err ELSE Ok(t + Clamp(ex.t - t))
        ELSE Ok(t + Clamp(default_fetch_delay))

\* A response: status "error" (no connection, 4xx, 5xx), "not_modified"
\* or "ok"; its body parses (docok) to the entries ids, or does not.
Response(st, hs, docok, ids) ==
    [status |-> st, headers |-> hs, docok |-> docok, ids |-> ids]

Feed(url, users, seen, last, next, etag) ==
    [url |-> url, users |-> users, seen_entries |-> seen,
     last_fetch |-> last, next_fetch |-> next, etag |-> etag]

\* a retain that keeps every entry of the document
Retain_everything(ids, seen) == ids

\* feed.entries.retain(|entry| !self.seen_entries.contains(&entry.id))
Retain(ids, seen) == SelectSeq(ids, LAMBDA e : e \notin seen)

\* a reset_expiry that also records the failed fetch as a fetch
reset_expiry_touching(self, t) ==
    [self EXCEPT !.next_fetch = t + 10 * 60, !.last_fetch = t]

reset_expiry(self, t) ==
    [self EXCEPT !.next_fetch = t + 10 * 60]

Feed_new(resp, url, user, t) ==
    LET expiry == find_expiry(resp.headers, t)
        et == resp.headers.etag
    IN  IF resp.status # "ok" THEN Err
        ELSE IF ~expiry.ok THEN Err
        ELSE IF ~header(et).ok THEN Err
        ELSE IF ~resp.docok THEN Err
        ELSE Ok(Feed(url, <<user>>, Range(resp.ids), t, expiry.v,
                     IF et.kind = "text" THEN et.v ELSE NoEtag))

\* a check that takes 304 Not Modified for a failed fetch
Feed_check_strict(self, resp, t) ==
    LET expiry == find_expiry(resp.headers, t)
        timed == IF expiry.ok
                 THEN [self EXCEPT !.last_fetch = t, !.next_fetch = expiry.v]
                 ELSE [self EXCEPT !.last_fetch = t, !.next_fetch = t + 10 * 60]
    IN  IF resp.status # "ok" \/ ~resp.docok
        THEN [ok |-> FALSE, feed |-> self, entries |-> <<>>]
        ELSE [ok |-> TRUE, feed |-> timed,
              entries |-> SelectSeq(resp.ids, LAMBDA e : e \notin self.seen_entries)]

\* Feed::check: Err leaves self as it was; Ok gives the new entries
Feed_check(self, resp, t) ==
    LET expiry == find_expiry(resp.headers, t)
        timed == IF expiry.ok
                 THEN [self EXCEPT !.last_fetch = t, !.next_fetch = expiry.v]
                 ELSE reset_expiry([self EXCEPT !.last_fetch = t], t)
    IN  IF resp.status = "error" THEN [ok |-> FALSE, feed |-> self, entries |-> <<>>]
        ELSE IF resp.status = "not_modified"
        THEN [ok |-> TRUE, feed |-> timed, entries |-> <<>>]
        ELSE IF ~resp.docok THEN [ok |-> FALSE, feed |-> self, entries |-> <<>>]
        ELSE [ok |-> TRUE, feed |-> timed,
              entries |-> Retain(resp.ids, self.seen_entries)]

\* a reset_entries that keeps the etag
reset_entries_keeping_etag(self, ents) ==
    [self EXCEPT !.last_fetch = EPOCH,
                 !.seen_entries = {e \in @ : e \notin Range(ents)}]

reset_entries(self, ents) ==
    [self EXCEPT !.last_fetch = EPOCH,
                 !.etag = NoEtag,
                 !.seen_entries = {e \in @ : e \notin Range(ents)}]

\* the absolute time of next_fetch, never earlier than now
next_fetch_timestamp(self, t) == t + Max(self.next_fetch - t, 0)

\* -------------------------------------------------------------------- db.rs
\* The tables.  url is UNIQUE, so the feed table is keyed by it; the entry
\* and subscriber tables are UNIQUE (feed_id, x) ON CONFLICT IGNORE: a set
\* per feed.
NoRow == [present |-> FALSE, last_check |-> 0, next_check |-> 0, etag |-> NoEtag]
Row(last, next, etag) ==
    [present |-> TRUE, last_check |-> last, next_check |-> next, etag |-> etag]
EmptyTables ==
    [feed |-> [u \in Urls |-> NoRow],
     entry |-> [u \in Urls |-> {}],
     subscriber |-> [u \in Urls |-> {}]]

\* The connection: what it sees (db), what is committed (disk), and whether
\* a transaction is open.
Conn(d, k, t) == [db |-> d, disk |-> k, intxn |-> t]

\* a statement that writes: autocommitted unless a transaction is open
Write(c, d) == IF c.intxn THEN [c EXCEPT !.db = d] ELSE Conn(d, d, FALSE)
\* "BEGIN" fails inside a transaction
CanBegin(c) == ~c.intxn
Begin(c) == [c EXCEPT !.intxn = TRUE]
Commit(c) == Conn(c.db, c.db, FALSE)
\* A failing statement changes nothing.  The functions of db.rs return at
\* once (the ? of query!) without a ROLLBACK: the transaction stays open,
\* unless SQLite itself rolled it back (rb: disk full, I/O error, ...).
\* a failing statement that commits what was written before it
Failed_committing(c, rb) == Conn(c.db, c.db, FALSE)

Failed(c, rb) == IF rb /\ c.intxn THEN Conn(c.disk, c.disk, FALSE) ELSE c

NoFault == [stage |-> "none", i |-> 0, part |-> {}, rb |-> FALSE]
Fault(stage, i, part, rb) == [stage |-> stage, i |-> i, part |-> part, rb |-> rb]

\* a guard that outlives the function
keep_guard(holder) == holder

\* the MutexGuard of self.0.lock() is dropped when the function returns
drop_guard(holder) == "free"

\* INSERT INTO feed: url is UNIQUE ON CONFLICT REPLACE, and deleting the
\* replaced row cascades to its entries and subscribers
InsertFeed(d, feed, t) ==
    [d EXCEPT !.feed[feed.url] =
                  Row(feed.last_fetch, next_fetch_timestamp(feed, t), feed.etag),
              !.entry[feed.url] = {},
              !.subscriber[feed.url] = {}]
\* entry rows that are not written
InsertEntries_none(d, url, ids) == d

InsertEntries(d, url, ids) == [d EXCEPT !.entry[url] = @ \cup ids]
\* subscriber rows that take the place of the rows of the feed
InsertSubscribers_replacing(d, url, us) == [d EXCEPT !.subscriber[url] = us]

InsertSubscribers(d, url, us) == [d EXCEPT !.subscriber[url] = @ \cup us]

add_feed(c, feed, t, f) ==
    LET c1 == Begin(c)
        c2 == Write(c1, InsertFeed(c1.db, feed, t))
        c3 == Write(c2, InsertEntries(c2.db, feed.url, feed.seen_entries))
        c4 == Write(c3, InsertSubscribers(c3.db, feed.url, Range(feed.users)))
    IN  IF f.stage = "begin" \/ ~CanBegin(c) THEN [ok |-> FALSE, c |-> c]
        ELSE IF f.stage = "feed" THEN [ok |-> FALSE, c |-> Failed(c1, f.rb)]
        ELSE IF f.stage = "rowid" THEN [ok |-> FALSE, c |-> Failed(c2, f.rb)]
        ELSE IF f.stage = "entry"
        THEN [ok |-> FALSE,
              c |-> Failed(Write(c2, InsertEntries(c2.db, feed.url, f.part)), f.rb)]
        ELSE IF f.stage = "subscriber" THEN [ok |-> FALSE, c |-> Failed(c3, f.rb)]
        ELSE IF f.stage = "commit" THEN [ok |-> FALSE, c |-> Failed(c4, f.rb)]
        ELSE [ok |-> TRUE, c |-> Commit(c4)]

\* "UPDATE feed SET last_check, next_check, etag WHERE id = ?"
UpdateFeedRow(d, feed, t) ==
    [d EXCEPT !.feed[feed.url] =
                  Row(feed.last_fetch, next_fetch_timestamp(feed, t), feed.etag)]

\* a turn that replaces the entry rows of the feed by its seen_entries
UpdateOne_replacing(d, feed, t) ==
    IF ~d.feed[feed.url].present THEN d
    ELSE [UpdateFeedRow(d, feed, t) EXCEPT !.entry[feed.url] = feed.seen_entries]

\* a turn that also stores the users of the feed as its subscriber rows
UpdateOne_with_users(d, feed, t) ==
    IF ~d.feed[feed.url].present THEN d
    ELSE [InsertEntries(UpdateFeedRow(d, feed, t), feed.url, feed.seen_entries)
             EXCEPT !.subscriber[feed.url] = {feed.users[i] : i \in 1..Len(feed.users)}]

\* one turn of the loop of update_feeds_and_entries
UpdateOne(d, feed, t) ==
    IF ~d.feed[feed.url].present THEN d
    ELSE InsertEntries(UpdateFeedRow(d, feed, t), feed.url, feed.seen_entries)

RECURSIVE UpdateFirst(_, _, _, _)
UpdateFirst(d, fs, k, t) ==
    IF k = 0 THEN d ELSE UpdateOne(UpdateFirst(d, fs, k - 1, t), fs[k], t)

update_feeds_and_entries(c, fs, t, f) ==
    LET c1 == Begin(c)
        before == UpdateFirst(c1.db, fs, f.i - 1, t)
        row == UpdateFeedRow(before, fs[f.i], t)
    IN  IF f.stage = "begin" \/ ~CanBegin(c) THEN [ok |-> FALSE, c |-> c]
        ELSE IF f.stage = "select"
        THEN [ok |-> FALSE, c |-> Failed(Write(c1, before), f.rb)]
        ELSE IF f.stage = "update"
        THEN [ok |-> FALSE, c |-> Failed(Write(c1, before), f.rb)]
        ELSE IF f.stage = "entry"
        THEN [ok |-> FALSE,
              c |-> Failed(Write(c1, InsertEntries(row, fs[f.i].url, f.part)), f.rb)]
        ELSE IF f.stage = "commit"
        THEN [ok |-> FALSE,
              c |-> Failed(Write(c1, UpdateFirst(c1.db, fs, Len(fs), t)), f.rb)]
        ELSE [ok |-> TRUE,
              c |-> Commit(Write(c1, UpdateFirst(c1.db, fs, Len(fs), t)))]

\* "DELETE FROM feed AS f WHERE NOT EXISTS (SELECT * FROM subscriber ...)",
\* cascading to the entries
DeleteOrphans(d) ==
    [d EXCEPT !.feed = [u \in Urls |->
                           IF d.subscriber[u] = {} THEN NoRow ELSE d.feed[u]],
              !.entry = [u \in Urls |->
                           IF d.subscriber[u] = {} THEN {} ELSE d.entry[u]]]

cleanup_feeds(c, f) ==
    IF f.stage = "delete" THEN [ok |-> FALSE, c |-> Failed(c, f.rb)]
    ELSE [ok |-> TRUE, c |-> Write(c, DeleteOrphans(c.db))]

\* the feed rows of "SELECT ... FROM feed WHERE next_check < ?"
PendingUrls(d, t) == {u \in Urls : d.feed[u].present /\ d.feed[u].next_check < t}

\* a load that gives every feed every user
LoadFeed_any_user(d, u, t, order) ==
    Feed(u, order, d.entry[u], d.feed[u].last_check,
         t + (d.feed[u].next_check - t), d.feed[u].etag)

\* The Feed built from a row and the rows joined to it.  Instant::now() +-
\* |next_check - now| is the instant of next_check.  The subscriber rows
\* come in the order the query yields them (order).
LoadFeed(d, u, t, order) ==
    Feed(u,
         SelectSeq(order, LAMBDA x : x \in d.subscriber[u]),
         d.entry[u],
         d.feed[u].last_check,
         t + (d.feed[u].next_check - t),
         d.feed[u].etag)

load_pending_feeds(c, t, f, order) ==
    IF f.stage \in {"feeds", "entries", "subscribers"}
    THEN [ok |-> FALSE, c |-> Failed(c, f.rb), v |-> {}]
    ELSE [ok |-> TRUE, c |-> c,
          v |-> {LoadFeed(c.db, u, t, order) : u \in PendingUrls(c.db, t)}]

try_add_subscriber(c, url, user, f) ==
    IF f.stage = "select" THEN [ok |-> FALSE, c |-> Failed(c, f.rb), v |-> FALSE]
    ELSE IF ~c.db.feed[url].present THEN [ok |-> TRUE, c |-> c, v |-> FALSE]
    ELSE IF f.stage = "insert" THEN [ok |-> FALSE, c |-> Failed(c, f.rb), v |-> FALSE]
    ELSE [ok |-> TRUE, c |-> Write(c, InsertSubscribers(c.db, url, {user})), v |-> TRUE]

\* "DELETE FROM subscriber WHERE user = ? AND feed_id = (SELECT id ...)"
DeleteSubscriber(d, url, user) ==
    IF d.feed[url].present THEN [d EXCEPT !.subscriber[url] = @ \ {user}] ELSE d
\* a count of the rows of the feed rather than of the rows deleted
Changes_of_feed(d, url, user) ==
    IF d.feed[url].present /\ d.subscriber[url] # {} THEN 1 ELSE 0

\* "SELECT changes()"
Changes(d, url, user) ==
    IF d.feed[url].present /\ user \in d.subscriber[url] THEN 1 ELSE 0

try_del_subscriber(c, url, user, f) ==
    LET c1 == Write(c, DeleteSubscriber(c.db, url, user))
    IN  IF f.stage = "delete" THEN [ok |-> FALSE, c |-> Failed(c, f.rb), v |-> FALSE]
        ELSE IF f.stage = "changes"
        THEN [ok |-> FALSE, c |-> Failed(c1, f.rb), v |-> FALSE]
        ELSE [ok |-> TRUE, c |-> c1, v |-> Changes(c.db, url, user) = 1]

get_user_feeds(c, user, f) ==
    IF f.stage = "select" THEN [ok |-> FALSE, c |-> Failed(c, f.rb), v |-> {}]
    ELSE [ok |-> TRUE, c |-> c,
          v |-> {u \in Urls : c.db.feed[u].present /\ user \in c.db.subscriber[u]}]

\* ------------------------------------------------- the environment's inputs
H_plain == Headers(Absent, Absent, Absent)
H_fast == Headers(CacheControl(<<Directive("max-age", "int", 0)>>), Absent, ETag("e1"))
H_bad == Headers(NonUtf8, Absent, Absent)
\* what a server answers to the first fetch of a feed, and to a poll
NewResponses ==
    {Response("error", H_plain, FALSE, <<>>),
     Response("ok", H_fast, FALSE, <<>>),
     Response("ok", H_bad, TRUE, <<1>>)}
    \cup {Response("ok", H_fast, TRUE, d) : d \in {<<>>, <<1>>}}
PollResponses ==
    {Response("error", H_plain, FALSE, <<>>),
     Response("not_modified", H_fast, FALSE, <<>>),
     Response("ok", H_fast, FALSE, <<>>)}
    \cup {Response("ok", h, TRUE, d) :
             h \in {H_plain, H_fast, H_bad}, d \in {<<1>>, <<1, 2>>}}
SendOutcomes == {"ok", "blocked", "rpc_error", "error"}
Orders == {<<"a", "b">>, <<"b", "a">>}
\* whether SQLite rolled back matters only for a statement in a transaction
Rb(txn) == IF txn THEN {FALSE, TRUE} ELSE {FALSE}
ProperSubsets(S) == {p \in SUBSET S : p # S}

AddFeedFaults(feed) ==
    {NoFault}
    \cup {Fault("begin", 0, {}, FALSE)}
    \cup {Fault(st, 0, {}, rb) :
             st \in {"feed", "rowid", "subscriber", "commit"}, rb \in Rb(TRUE)}
    \cup {Fault("entry", 0, part, rb) :
             part \in ProperSubsets(feed.seen_entries), rb \in Rb(TRUE)}
\* the statements update_feeds_and_entries runs depend on the rows it finds
UpdateFaults(c, fs) ==
    {NoFault}
    \cup {Fault("begin", 0, {}, FALSE)}
    \cup {Fault("commit", 0, {}, rb) : rb \in Rb(TRUE)}
    \cup {Fault("select", i, {}, rb) : i \in 1..Len(fs), rb \in Rb(TRUE)}
    \cup {Fault("update", i, {}, rb) :
             i \in {j \in 1..Len(fs) : c.db.feed[fs[j].url].present}, rb \in Rb(TRUE)}
    \cup UNION {{Fault("entry", i, part, rb) :
                    part \in ProperSubsets(fs[i].seen_entries), rb \in Rb(TRUE)} :
                i \in {j \in 1..Len(fs) : c.db.feed[fs[j].url].present}}
StageFaults(c, stages) ==
    {NoFault} \cup {Fault(st, 0, {}, rb) : st \in stages, rb \in Rb(c.intxn)}

\* ------------------------------------------------------------------ main.rs
NoFeed == Feed(NoUrl, <<>>, {}, 0, 0, NoEtag)
NoResp == Response("none", H_plain, FALSE, <<>>)
NoMsg == [cmd |-> "none", url |-> NoUrl, user |-> "none"]
NoPoll == [outcome |-> "none", ents |-> <<>>]
NoPolled == [u \in Urls |-> NoPoll]
Poll(outcome, ents) == [outcome |-> outcome, ents |-> ents]

TheConn == Conn(db, disk, intxn)
SetConn(c) == db' = c.db /\ disk' = c.disk /\ intxn' = c.intxn

\* the failed batch-persists in a row, up to this one
Saved(sv, ok) == IF ok THEN <<>> ELSE Append(sv, "fail")

\* an Ok arm that leaves last_save_failed as it is
after_save_sticky(ok, last) ==
    IF ok THEN [last_save_failed |-> last, panic |-> FALSE]
    ELSE IF last THEN [last_save_failed |-> TRUE, panic |-> TRUE]
    ELSE [last_save_failed |-> TRUE, panic |-> FALSE]

\* handle_feed, after update_feeds_and_entries returned
after_save(ok, last) ==
    IF ok THEN [last_save_failed |-> FALSE, panic |-> FALSE]
    ELSE IF last THEN [last_save_failed |-> TRUE, panic |-> TRUE]
    ELSE [last_save_failed |-> TRUE, panic |-> FALSE]

\* match arms that count every Err, USER_IS_BLOCKED included
count_failure_blocked(fc, out) == IF out # "ok" THEN fc + 1 ELSE fc

\* the match on what send_message returned: Ok and USER_IS_BLOCKED leave
\* fail_count, any other Rpc error and any other error add one
count_failure(fc, out) == IF out \in {"rpc_error", "error"} THEN fc + 1 ELSE fc

\* fail_count == feed.users.len()
all_failed(fc, users) == fc = Len(users)

\* The process ends: select! returns (or a panic unwinds), the connection is
\* closed and what it had not committed is gone.
Halt(cause, c, sv) ==
    /\ proc' = "stopped"
    /\ stopcause' = cause
    /\ db' = c.disk /\ disk' = c.disk /\ intxn' = FALSE
    /\ mutex' = "free"
    /\ upc' = "off" /\ msg' = NoMsg /\ reply' = "none" /\ nmsg' = nmsg
    /\ fpc' = "off" /\ feeds' = {} /\ cur' = NoFeed /\ entries' = <<>>
    /\ ei' = 0 /\ ui' = 0 /\ fail_count' = 0 /\ updated_feeds' = <<>>
    /\ last_save_failed' = FALSE
    /\ polled' = NoPolled /\ sends' = <<>>
    /\ saves' = sv
    /\ UNCHANGED version

UpdatesVars == <<upc, msg, reply, nmsg>>
ProcVars == <<proc, stopcause, version>>

\* handle_feed between two feeds: visit the next loaded feed (the BinaryHeap
\* is iterated in no particular order), or, after the last one, persist the
\* updated feeds and go to sleep.
Advance(c, m, rem, upd, pol) ==
    IF rem # {}
    THEN \E nx \in rem :
            /\ cur' = nx /\ feeds' = rem \ {nx} /\ fpc' = "fetch"
            /\ entries' = <<>> /\ ei' = 0 /\ ui' = 0 /\ fail_count' = 0
            /\ updated_feeds' = upd /\ polled' = pol /\ sends' = <<>>
            /\ SetConn(c) /\ mutex' = m
            /\ UNCHANGED <<last_save_failed, saves, ProcVars, UpdatesVars>>
    ELSE \E r \in {update_feeds_and_entries(c, upd, now', f) :
                        f \in UpdateFaults(c, upd)} :
            LET o == after_save(r.ok, last_save_failed)
            IN  IF o.panic
                THEN Halt("persist_twice", r.c, Saved(saves, r.ok))
                ELSE /\ SetConn(r.c) /\ mutex' = drop_guard("feed")
                     /\ fpc' = "sleep" /\ feeds' = {} /\ cur' = NoFeed
                     /\ entries' = <<>> /\ ei' = 0 /\ ui' = 0 /\ fail_count' = 0
                     /\ updated_feeds' = <<>> /\ polled' = pol /\ sends' = <<>>
                     /\ last_save_failed' = o.last_save_failed
                     /\ saves' = Saved(saves, r.ok)
                     /\ UNCHANGED <<ProcVars, UpdatesVars>>

\* the head of the loop: load the due feeds at time t
LoopHead(t) ==
    /\ mutex = "free"
    /\ now' = t /\ response' = response
    /\ \E f \in StageFaults(TheConn, {"feeds", "entries", "subscribers"}), order \in Orders :
          LET r == load_pending_feeds(TheConn, t, f, order)
          IN  IF ~r.ok THEN Halt("load_failed", r.c, <<>>)
              ELSE Advance(r.c, drop_guard("feed"), r.v, <<>>,
                           [u \in Urls |->
                               IF \E g \in r.v : g.url = u
                               THEN Poll("loaded", <<>>)
                               ELSE NoPoll])

\* handle_feed is polled for the first time
FeedStart ==
    /\ proc = "running" /\ fpc = "start"
    /\ LoopHead(now)

\* sleep(FETCH_FEEDS_DELAY) is over: a sleep never returns early.  The loop
\* goes on once the clock has saturated at MaxTime.
SleepDone ==
    /\ proc = "running" /\ fpc = "sleep"
    /\ LoopHead(Min(now + FETCH_FEEDS_DELAY + Overshoot, MaxTime))

Outcome(pol, u, o, ents) == [pol EXCEPT ![u] = Poll(o, ents)]

\* feed.check(&http) returned
FetchDone ==
    /\ proc = "running" /\ fpc = "fetch" /\ mutex = "free"
    /\ now' = now /\ response' = response
    /\ \E resp \in PollResponses :
          LET r == Feed_check(cur, resp, now)
              u == cur.url
          IN  IF ~r.ok
              THEN Advance(TheConn, mutex, feeds,
                           Append(updated_feeds, reset_expiry(r.feed, now)),
                           Outcome(polled, u, "fetch_err", <<>>))
              ELSE IF r.entries = <<>>
              THEN Advance(TheConn, mutex, feeds, Append(updated_feeds, r.feed),
                           Outcome(polled, u, "nothing", <<>>))
              ELSE IF all_failed(0, r.feed.users)
              THEN Advance(TheConn, mutex, feeds,
                           Append(updated_feeds, reset_entries(r.feed, r.entries)),
                           Outcome(polled, u, "reset", r.entries))
              ELSE /\ cur' = r.feed /\ entries' = r.entries
                   /\ ei' = 1 /\ ui' = 1 /\ fail_count' = 0 /\ fpc' = "send"
                   /\ polled' = Outcome(polled, u, "sending", r.entries)
                   /\ sends' = <<>>
                   /\ UNCHANGED <<feeds, updated_feeds, last_save_failed, saves,
                                  ProcVars, UpdatesVars, db, disk, intxn, mutex>>

\* tg.send_message(*user, new_entry(entry)) returned out
SendDoneWith(out) ==
    /\ proc = "running" /\ fpc = "send" /\ mutex = "free"
    /\ now' = now /\ response' = response
    /\ LET fc == count_failure(fail_count, out)
           u == cur.url
       IN  IF ui < Len(cur.users)
           THEN /\ ui' = ui + 1 /\ fail_count' = fc
                /\ sends' = Append(sends, out)
                /\ UNCHANGED <<fpc, feeds, cur, entries, ei, updated_feeds,
                               last_save_failed, polled, saves, ProcVars,
                               UpdatesVars, db, disk, intxn, mutex>>
           ELSE IF all_failed(fc, cur.users)
           THEN Advance(TheConn, mutex, feeds,
                        Append(updated_feeds, reset_entries(cur, entries)),
                        Outcome(polled, u, "reset", entries))
           ELSE IF ei < Len(entries)
           THEN /\ ei' = ei + 1 /\ ui' = 1 /\ fail_count' = 0
                /\ sends' = <<>>
                /\ UNCHANGED <<fpc, feeds, cur, entries, updated_feeds,
                               last_save_failed, polled, saves, ProcVars,
                               UpdatesVars, db, disk, intxn, mutex>>
           ELSE Advance(TheConn, mutex, feeds, Append(updated_feeds, cur),
                        Outcome(polled, u, "delivered", entries))

SendDone == \E out \in SendOutcomes : SendDoneWith(out)

CycleVars == <<fpc, feeds, cur, entries, ei, ui, fail_count, updated_feeds,
               last_save_failed, sends, saves>>

\* handle_message goes on to send or edit text and suspends at pc.  The
\* history of a cycle that is over is kept until handle_updates next runs.
Say(text, pc, m, n, c) ==
    /\ reply' = text /\ upc' = pc /\ msg' = m /\ nmsg' = n
    /\ SetConn(c)
    /\ polled' = IF fpc = "sleep" THEN NoPolled ELSE polled
    /\ UNCHANGED <<CycleVars, ProcVars>>

\* The messages that may come next: a command, what parse_url makes of its
\* argument, and the sender.  Urls and users are interchangeable, so a
\* message names u2 only once u1 is stored and comes from b only once a
\* has a subscription.
Messages(d) ==
    {m \in {[cmd |-> "start", url |-> NoUrl, user |-> "a"],
            [cmd |-> "add", url |-> NoUrl, user |-> "a"]}
           \cup {[cmd |-> "ls", url |-> NoUrl, user |-> x] : x \in Users}
           \cup {[cmd |-> k, url |-> u, user |-> x] :
                    k \in {"add", "rm"}, u \in Urls, x \in Users} :
        /\ m.url = "u2" => d.feed["u1"].present
        /\ m.user = "b" => \E u \in Urls : "a" \in d.subscriber[u]}

\* tg.next_update() returned a message of a user: handle_message up to its
\* first send.  A store error is no InvocationError: handle_updates returns.
RecvMessage ==
    /\ proc = "running" /\ upc = "idle" /\ mutex = "free"
    /\ nmsg < MaxMessages
    /\ now' = now /\ response' = response
    /\ \E m \in Messages(db) :
          IF m.cmd = "start"
          THEN Say("welcome", "reply", NoMsg, nmsg + 1, TheConn) /\ mutex' = mutex
          ELSE IF m.cmd = "ls"
          THEN \E f \in StageFaults(TheConn, {"select"}) :
                  LET r == get_user_feeds(TheConn, m.user, f)
                  IN  IF r.ok
                      THEN Say("list", "reply", NoMsg, nmsg + 1, r.c)
                           /\ mutex' = drop_guard("updates")
                      ELSE Halt("store_error", r.c, <<>>)
          ELSE IF m.url = NoUrl
          THEN Say("no_url", "reply", NoMsg, nmsg + 1, TheConn) /\ mutex' = mutex
          ELSE IF m.cmd = "add"
          THEN Say("try_add", "add_sent", m, nmsg + 1, TheConn) /\ mutex' = mutex
          ELSE \E f \in StageFaults(TheConn, {"delete", "changes"}) :
                  LET r == try_del_subscriber(TheConn, m.url, m.user, f)
                  IN  IF r.ok
                      THEN Say(IF r.v THEN "del_ok" ELSE "del_err", "reply",
                               NoMsg, nmsg + 1, r.c)
                           /\ mutex' = drop_guard("updates")
                      ELSE Halt("store_error", r.c, <<>>)

\* tg.next_update() returned an error, or None (disconnected)
UpdatesEnd ==
    /\ proc = "running" /\ upc = "idle"
    /\ now' = now /\ response' = response
    /\ \E cause \in {"update_error", "disconnected"} : Halt(cause, TheConn, <<>>)

\* /add: the "Trying to add" message was sent, or sending it failed (every
\* InvocationError is swallowed by handle_updates)
AddSent ==
    /\ proc = "running" /\ upc = "add_sent" /\ mutex = "free"
    /\ now' = now /\ response' = response
    /\ \E sent \in BOOLEAN, f \in StageFaults(TheConn, {"select", "insert"}) :
          LET r == try_add_subscriber(TheConn, msg.url, msg.user, f)
          IN  IF ~sent
              THEN /\ f = NoFault
                   /\ Say("none", "idle", NoMsg, nmsg, TheConn) /\ mutex' = mutex
              ELSE IF ~r.ok THEN Halt("store_error", r.c, <<>>)
              ELSE IF r.v
              THEN Say("add_ok", "reply", NoMsg, nmsg, r.c)
                   /\ mutex' = drop_guard("updates")
              ELSE Say("try_add", "add_fetch", msg, nmsg, r.c)
                   /\ mutex' = drop_guard("updates")

\* /add: Feed::new(&http, url, user) returned
AddFetched ==
    /\ proc = "running" /\ upc = "add_fetch" /\ mutex = "free"
    /\ now' = now /\ response' = response
    /\ \E resp \in NewResponses :
          LET n == Feed_new(resp, msg.url, msg.user, now)
          IN  IF ~n.ok
              THEN Say("add_err", "reply", NoMsg, nmsg, TheConn) /\ mutex' = mutex
              ELSE \E f \in AddFeedFaults(n.v) :
                      LET r == add_feed(TheConn, n.v, now, f)
                      IN  IF r.ok
                          THEN Say("add_ok", "reply", NoMsg, nmsg, r.c)
                               /\ mutex' = drop_guard("updates")
                          ELSE Halt("store_error", r.c, <<>>)

\* the last send or edit of handle_message returned, Ok or Err
ReplyDone ==
    /\ proc = "running" /\ upc = "reply"
    /\ now' = now /\ response' = response
    /\ Say("none", "idle", NoMsg, nmsg, TheConn) /\ mutex' = mutex

\* main: Database::new and cleanup_feeds, then both activities start
Startup ==
    /\ proc = "boot"
    /\ now' = now /\ response' = response
    /\ IF version > VERSION
       THEN /\ proc' = "fatal" /\ stopcause' = "schema_too_new"
            /\ UNCHANGED <<version, db, disk, intxn, mutex,
                           UpdatesVars, CycleVars, polled>>
       ELSE \E f \in StageFaults(TheConn, {"delete"}) :
               LET r == cleanup_feeds(TheConn, f)
               IN  IF ~r.ok
                   THEN /\ proc' = "stopped" /\ stopcause' = "startup_error"
                        /\ version' = VERSION
                        /\ db' = r.c.disk /\ disk' = r.c.disk /\ intxn' = FALSE
                        /\ UNCHANGED <<mutex, UpdatesVars, CycleVars, polled>>
                   ELSE /\ proc' = "running" /\ version' = VERSION
                        /\ SetConn(r.c) /\ mutex' = drop_guard("main")
                        /\ upc' = "idle" /\ fpc' = "start"
                        /\ UNCHANGED <<stopcause, msg, reply, nmsg,
                                       feeds, cur, entries, ei, ui, fail_count,
                                       updated_feeds, last_save_failed, polled,
                                       sends, saves>>

\* SIGINT (select! takes the ctrl_c branch) or the process is killed
Crash ==
    /\ proc = "running"
    /\ now' = now /\ response' = response
    /\ Halt("signal", TheConn, <<>>)

\* the process is started again
Restart ==
    /\ proc = "stopped"
    /\ proc' = "boot"
    /\ stopcause' = "none" /\ saves' = <<>>
    /\ UNCHANGED <<now, response, version, db, disk, intxn, mutex, UpdatesVars,
                   fpc, feeds, cur, entries, ei, ui, fail_count, updated_feeds,
                   last_save_failed, polled, sends>>

Init ==
    /\ now = T0
    /\ proc = "boot" /\ stopcause = "none"
    /\ version \in {0, VERSION, VERSION + 1}
    /\ disk = EmptyTables /\ db = EmptyTables /\ intxn = FALSE
    /\ mutex = "free"
    /\ upc = "off" /\ msg = NoMsg /\ reply = "none" /\ nmsg = 0
    /\ fpc = "off" /\ feeds = {} /\ cur = NoFeed /\ entries = <<>>
    /\ response = NoResp
    /\ ei = 0 /\ ui = 0 /\ fail_count = 0 /\ updated_feeds = <<>>
    /\ last_save_failed = FALSE
    /\ polled = NoPolled /\ sends = <<>>
    /\ saves = <<>>

Next ==
    \/ Startup
    \/ RecvMessage
    \/ UpdatesEnd
    \/ AddSent
    \/ AddFetched
    \/ ReplyDone
    \/ FeedStart
    \/ SleepDone
    \/ FetchDone
    \/ SendDone
    \/ Crash
    \/ Restart

Spec == Init /\ [][Next]_vars

\* The runtime polls a future that can make progress: neither activity is
\* starved while the process runs.
FairSpec ==
    /\ Spec
    /\ WF_vars(FeedStart \/ SleepDone \/ FetchDone \/ SendDone)
    /\ WF_vars(AddSent \/ AddFetched \/ ReplyDone)

\* ----------------------------------------- Feed::new and Feed::check alone
Docs == UNION {[1..n -> 1..MaxId] : n \in 0..MaxDoc}
CheckResponses ==
    {Response("error", H_plain, FALSE, <<>>),
     Response("not_modified", H_fast, FALSE, <<>>),
     Response("ok", H_plain, FALSE, <<>>)}
    \cup {Response("ok", h, TRUE, d) : h \in {H_plain, H_bad}, d \in Docs}

CheckRest == <<now, proc, stopcause, version, disk, db, intxn, mutex,
               upc, msg, reply, nmsg, feeds, ei, ui, fail_count,
               updated_feeds, last_save_failed, polled, sends, saves>>

CheckInit == Init /\ version = VERSION

\* Feed::new(&http, url, user) on a response that makes a feed
NewFeed ==
    /\ \E d \in Docs, h \in {H_plain, H_fast} :
          /\ response' = Response("ok", h, TRUE, d)
          /\ cur' = Feed_new(response', "u1", "a", now).v
    /\ entries' = <<>> /\ fpc' = "created"
    /\ UNCHANGED CheckRest

\* feed.check(&http) on any response
CheckFeed ==
    /\ fpc # "off"
    /\ \E r \in CheckResponses :
          LET c == Feed_check(cur, r, now)
          IN  /\ response' = r
              /\ cur' = c.feed
              /\ entries' = c.entries
              /\ fpc' = IF c.ok THEN "checked" ELSE "check_err"
    /\ UNCHANGED CheckRest

\* feed.reset_entries(&entries), as handle_feed calls it
ResetFeed ==
    /\ fpc = "checked" /\ entries # <<>>
    /\ cur' = reset_entries(cur, entries)
    /\ fpc' = "created"
    /\ UNCHANGED <<response, entries, CheckRest>>

CheckNext ==
    \/ NewFeed
    \/ CheckFeed
    \/ ResetFeed

CheckSpec == CheckInit /\ [][CheckNext]_vars

\* ----------------------------------------------------------------- LoopSpec
\* The dispatch loop on the database file of an earlier run, while no
\* message arrives (handle_updates stays suspended in tg.next_update(), or
\* ends with it).  u1 is stored with entry 1 and subscriber a, u2 without
\* entries and with subscriber b, each last checked one cycle before T0 and
\* due by then or in the cycle after.
LoopRow(delay) ==
    Row(T0 - (FETCH_FEEDS_DELAY + Overshoot),
        T0 - (FETCH_FEEDS_DELAY + Overshoot) + delay, "e1")

LoopStore(d1, d2) ==
    [feed |-> [u \in Urls |-> IF u = "u1" THEN LoopRow(d1) ELSE LoopRow(d2)],
     entry |-> [u \in Urls |-> IF u = "u1" THEN {1} ELSE {}],
     subscriber |-> [u \in Urls |-> IF u = "u1" THEN {"a"} ELSE {"b"}]]

LoopInit ==
    /\ now = T0
    /\ proc = "boot" /\ stopcause = "none"
    /\ version = VERSION
    /\ \E d1, d2 \in {min_fetch_delay, 2 * min_fetch_delay} :
          disk = LoopStore(d1, d2) /\ db = LoopStore(d1, d2)
    /\ intxn = FALSE
    /\ mutex = "free"
    /\ upc = "off" /\ msg = NoMsg /\ reply = "none" /\ nmsg = 0
    /\ fpc = "off" /\ feeds = {} /\ cur = NoFeed /\ entries = <<>>
    /\ response = NoResp
    /\ ei = 0 /\ ui = 0 /\ fail_count = 0 /\ updated_feeds = <<>>
    /\ last_save_failed = FALSE
    /\ polled = NoPolled /\ sends = <<>>
    /\ saves = <<>>

LoopNext ==
    \/ Startup
    \/ UpdatesEnd
    \/ FeedStart
    \/ SleepDone
    \/ FetchDone
    \/ SendDone
    \/ Crash
    \/ Restart

LoopSpec ==
    /\ LoopInit /\ [][LoopNext]_vars
    /\ WF_vars(FeedStart \/ SleepDone \/ FetchDone \/ SendDone)

\* ---------------------------------------------------------------- StoreSpec
\* The functions of Database called one after the other on one connection,
\* on an empty store or on the store of an earlier run, with every feed
\* record of FeedRecords; nmsg counts the calls.  The callers of these
\* functions return their errors up to main (the ? of main.rs), which ends
\* the process: after an error the connection is a new one.
FeedRecords(t) ==
    {Feed(u, us, seen, last, next, et) :
        u \in Urls, us \in {<<"a">>, <<"b", "a">>},
        seen \in {{}, {1}, {1, 2}}, last \in {t},
        next \in {t - 1, t + min_fetch_delay},
        et \in {NoEtag, "e1"}}

Call(cmd, url, user) == [cmd |-> cmd, url |-> url, user |-> user]

StoreRest == <<proc, stopcause, version, mutex, upc, fpc, response, entries,
               ei, ui, fail_count, updated_feeds, last_save_failed, polled,
               sends, saves>>

\* what a call leaves: the connection as it is, or closed after an error
Returned(r) == IF r.ok THEN SetConn(r.c) ELSE SetConn(Conn(r.c.disk, r.c.disk, FALSE))

StoreInit ==
    /\ now = T0
    /\ proc = "boot" /\ stopcause = "none"
    /\ version = VERSION
    /\ \E d \in {EmptyTables}
               \cup {LoopStore(d1, d2) :
                        d1, d2 \in {min_fetch_delay, 2 * min_fetch_delay}} :
          disk = d /\ db = d
    /\ intxn = FALSE
    /\ mutex = "free"
    /\ upc = "off" /\ msg = NoMsg /\ reply = "none" /\ nmsg = 0
    /\ fpc = "off" /\ feeds = {} /\ cur = NoFeed /\ entries = <<>>
    /\ response = NoResp
    /\ ei = 0 /\ ui = 0 /\ fail_count = 0 /\ updated_feeds = <<>>
    /\ last_save_failed = FALSE
    /\ polled = NoPolled /\ sends = <<>>
    /\ saves = <<>>

StoreAddFeed ==
    \E g \in FeedRecords(now) : \E f \in AddFeedFaults(g) :
        LET r == add_feed(TheConn, g, now, f)
        IN  /\ nmsg < MaxMessages /\ nmsg' = nmsg + 1
            /\ Returned(r)
            /\ msg' = Call("add_feed", g.url, "none")
            /\ reply' = IF r.ok THEN "ok" ELSE "err"
            /\ cur' = g /\ feeds' = {}
            /\ UNCHANGED <<now, StoreRest>>

\* load_pending_feeds, a cycle later or at once; cur keeps the record of an
\* add_feed that has just returned Ok
StoreLoad ==
    \E t \in {now, now + FETCH_FEEDS_DELAY + Overshoot} :
    \E f \in StageFaults(TheConn, {"feeds", "entries", "subscribers"}), order \in Orders :
        LET r == load_pending_feeds(TheConn, t, f, order)
        IN  /\ nmsg < MaxMessages /\ nmsg' = nmsg + 1
            /\ t <= MaxTime
            /\ now' = t
            /\ Returned(r)
            /\ msg' = Call("load", NoUrl, "none")
            /\ reply' = IF r.ok THEN "ok" ELSE "err"
            /\ cur' = IF msg.cmd = "add_feed" /\ reply = "ok" THEN cur ELSE NoFeed
            /\ feeds' = r.v
            /\ UNCHANGED StoreRest

StoreAddSubscriber ==
    \E u \in Urls, x \in Users : \E f \in StageFaults(TheConn, {"select", "insert"}) :
        LET r == try_add_subscriber(TheConn, u, x, f)
        IN  /\ nmsg < MaxMessages /\ nmsg' = nmsg + 1
            /\ Returned(r)
            /\ msg' = Call("try_add_subscriber", u, x)
            /\ reply' = IF ~r.ok THEN "err" ELSE IF r.v THEN "true" ELSE "false"
            /\ cur' = NoFeed /\ feeds' = {}
            /\ UNCHANGED <<now, StoreRest>>

StoreDelSubscriber ==
    \E u \in Urls, x \in Users : \E f \in StageFaults(TheConn, {"delete", "changes"}) :
        LET r == try_del_subscriber(TheConn, u, x, f)
        IN  /\ nmsg < MaxMessages /\ nmsg' = nmsg + 1
            /\ Returned(r)
            /\ msg' = Call("try_del_subscriber", u, x)
            /\ reply' = IF ~r.ok THEN "err" ELSE IF r.v THEN "true" ELSE "false"
            /\ cur' = NoFeed /\ feeds' = {}
            /\ UNCHANGED <<now, StoreRest>>

\* The feeds handle_feed hands to update_feeds_and_entries: records as
\* loaded and polled, or reset (reset_entries), of urls that are stored or
\* not, with users and entries that are the stored ones or not.
UpdateRecords(t) ==
    LET polls == {Feed(u, us, seen, t, t + min_fetch_delay, et) :
                     u \in Urls, us \in {<<"a">>, <<"b", "a">>},
                     seen \in {{}, {2}}, et \in {"e2"}}
    IN  polls \cup {reset_entries(g, <<2>>) : g \in polls}

StoreUpdate ==
    \E g \in UpdateRecords(now) :
    \E fs \in {<<g>>} \cup {<<g, h>> : h \in {k \in UpdateRecords(now) :
                                             /\ k.url # g.url /\ k.users = <<"a">>
                                             /\ k.seen_entries = {2}
                                             /\ k.last_fetch # EPOCH}} :
    \E f \in UpdateFaults(TheConn, fs) :
        LET r == update_feeds_and_entries(TheConn, fs, now, f)
        IN  /\ nmsg < MaxMessages /\ nmsg' = nmsg + 1
            /\ Returned(r)
            /\ msg' = Call("update_feeds_and_entries", g.url, "none")
            /\ reply' = IF r.ok THEN "ok" ELSE "err"
            /\ cur' = g /\ feeds' = {fs[i] : i \in 1..Len(fs)}
            /\ UNCHANGED <<now, StoreRest>>

StoreCleanup ==
    \E f \in StageFaults(TheConn, {"delete"}) :
        LET r == cleanup_feeds(TheConn, f)
        IN  /\ nmsg < MaxMessages /\ nmsg' = nmsg + 1
            /\ Returned(r)
            /\ msg' = Call("cleanup_feeds", NoUrl, "none")
            /\ reply' = IF r.ok THEN "ok" ELSE "err"
            /\ cur' = NoFeed /\ feeds' = {}
            /\ UNCHANGED <<now, StoreRest>>

StoreNext ==
    \/ StoreAddFeed
    \/ StoreLoad
    \/ StoreAddSubscriber
    \/ StoreDelSubscriber
    \/ StoreUpdate
    \/ StoreCleanup

StoreSpec == StoreInit /\ [][StoreNext]_vars

\* --------------------------- find_expiry through Feed::new and Feed::check
\* The values of Cache-Control: one or two directives.  After a comma the
\* directive is written with or without a blank, and split(",") keeps the
\* blank in the key.
FirstDirectives ==
    {Directive("max-age", "int", n) : n \in {0 - 5, 59, 60, 3600, 86400, 86401}}
    \cup {Directive("Max-Age", "int", 3600),
          Directive("max-age", "bad", 0),
          Directive("no-cache", "none", 0)}
SecondDirectives ==
    {Directive("max-age", "int", 7200),
     Directive(" max-age", "int", 7200),
     Directive(" no-cache", "none", 0)}
CacheControls ==
    {Absent, NonUtf8}
    \cup {CacheControl(<<d>>) : d \in FirstDirectives}
    \cup {CacheControl(<<d, e>>) : d \in FirstDirectives, e \in SecondDirectives}
\* Expires: absent, not UTF-8, no RFC 2822 date, or a date (as seconds
\* since the epoch) before or after the first start
ExpiresValues ==
    {Absent, NonUtf8, Expires(FALSE, 0),
     Expires(TRUE, T0 - 100), Expires(TRUE, T0 + 3600), Expires(TRUE, T0 + 100000)}
ETagValues == {Absent, NonUtf8, ETag("e1"), ETag("e2")}
ExpiryHeaders ==
    {Headers(cc, ex, et) :
        cc \in CacheControls,
        ex \in {Absent, Expires(TRUE, T0 + 3600)},
        et \in {Absent, ETag("e2")}}
    \cup {Headers(cc, ex, et) :
             cc \in {Absent, CacheControl(<<Directive("no-cache", "none", 0)>>)},
             ex \in ExpiresValues,
             et \in ETagValues}
ExpiryPolls ==
    {Response("error", H_plain, FALSE, <<>>)}
    \cup {Response("ok", h, FALSE, <<>>) : h \in {H_plain, H_bad}}
    \cup {Response(st, h, st = "ok", IF st = "ok" THEN <<2, 1>> ELSE <<>>) :
             st \in {"ok", "not_modified"}, h \in ExpiryHeaders}

ExpiryRest == <<proc, stopcause, version, disk, db, intxn, mutex,
                upc, msg, reply, nmsg, feeds, ei, ui, fail_count,
                updated_feeds, last_save_failed, polled, sends, saves>>

ExpiryInit == Init /\ version = VERSION

\* Feed::new(&http, url, user) on a 200 response with a document: the
\* first /add of the url, or one more after an /add that failed
ExpiryNew ==
    /\ fpc \in {"off", "new_err"}
    /\ \E h \in ExpiryHeaders, d \in {<<>>, <<1>>} :
          LET r == Response("ok", h, TRUE, d)
              n == Feed_new(r, "u1", "a", now)
          IN  /\ response' = r
              /\ cur' = IF n.ok THEN n.v ELSE NoFeed
              /\ fpc' = IF n.ok THEN "created" ELSE "new_err"
    /\ entries' = <<>>
    /\ UNCHANGED <<now, ExpiryRest>>

\* feed.check(&http) a cycle later
ExpiryCheck ==
    /\ fpc = "created"
    /\ now + FETCH_FEEDS_DELAY + Overshoot <= MaxTime
    /\ now' = now + FETCH_FEEDS_DELAY + Overshoot
    /\ \E r \in ExpiryPolls :
          LET c == Feed_check(cur, r, now')
          IN  /\ response' = r
              /\ cur' = c.feed
              /\ entries' = c.entries
              /\ fpc' = IF c.ok THEN "checked" ELSE "check_err"
    /\ UNCHANGED ExpiryRest

ExpiryNext ==
    \/ ExpiryNew
    \/ ExpiryCheck

ExpirySpec == ExpiryInit /\ [][ExpiryNext]_vars

\* ------------------------------------------------------------------ claims
\* the cycle is over, its batch-persist succeeded, and handle_updates has
\* not run since
Persisted == proc = "running" /\ fpc = "sleep" /\ saves = <<>>

\* C1: after a cycle that delivered the new entries of a feed (for each
\* entry, some subscriber did not fail transiently) and whose batch-persist
\* succeeded, the identifiers of those entries are in the stored
\* seen_entries of the feed.
C1_DeliveredEntriesStoredSeen ==
    \A u \in Urls :
        (Persisted /\ polled[u].outcome = "delivered")
            => Range(polled[u].ents) \subseteq disk.entry[u]

\* C2: after a cycle in which the delivery of a new entry failed transiently
\* for every subscriber and whose batch-persist succeeded, the stored feed
\* has last_check at the epoch, no etag and none of the poll's entries among
\* its entry rows; the feed loaded from it yields those entries again.
C2_AllFailedStoredReset ==
    \A u \in Urls :
        (Persisted /\ polled[u].outcome = "reset")
            => /\ disk.feed[u].present
               /\ disk.feed[u].last_check = EPOCH
               /\ disk.feed[u].etag = NoEtag
               /\ disk.entry[u] \cap Range(polled[u].ents) = {}
               /\ LET g == LoadFeed(disk, u, now, <<"a", "b">>)
                      r == Response("ok", H_plain, TRUE, polled[u].ents)
                  IN  /\ g.last_fetch = EPOCH /\ g.etag = NoEtag
                      /\ Feed_check(g, r, now).entries = polled[u].ents

C2_Witness ==
    \E u \in Urls :
        /\ Persisted /\ polled[u].outcome = "reset"
        /\ Len(polled[u].ents) = 2
        /\ disk.subscriber[u] # {}

\* C3: a successful Feed::check returns the entries of the document whose
\* identifier is not in seen_entries, each as often as the document holds
\* it, whatever their order.
C3_CheckReturnsUnseen ==
    [][(fpc' = "checked" /\ response'.status = "ok")
          => /\ Range(entries') = Range(response'.ids) \ cur.seen_entries
             /\ Len(entries') =
                    Cardinality({i \in 1..Len(response'.ids) :
                                    response'.ids[i] \notin cur.seen_entries})]_vars

C3_Witness ==
    /\ fpc = "checked"
    /\ cur.seen_entries = {1, 2}
    /\ response.ids = <<3, 2>>
    /\ entries = <<3>>

\* C4: when the fetch of a due feed fails, the feed keeps its seen_entries,
\* last_fetch and etag and gets next_fetch = now + 600; the loop goes on to
\* the next due feed, or, after the last one, persists the batch: the row of
\* the failed feed changes in next_check only, and the rows of the feeds
\* polled before it in the cycle are written too.
C4_FetchErrorIsolated ==
    [][\A u \in Urls :
          (polled[u].outcome = "loaded" /\ polled'[u].outcome = "fetch_err")
              => LET kept == [cur EXCEPT !.next_fetch = now + 600]
                 IN  /\ cur.url = u
                     /\ proc' = "running"
                     /\ IF feeds # {}
                        THEN /\ fpc' = "fetch" /\ cur' \in feeds
                             /\ updated_feeds' = Append(updated_feeds, kept)
                        ELSE /\ fpc' = "sleep"
                             /\ saves' = <<>> =>
                                   /\ disk'.feed[u] =
                                          Row(cur.last_fetch, now + 600, cur.etag)
                                   /\ disk'.feed[u].last_check = db.feed[u].last_check
                                   /\ disk'.feed[u].etag = db.feed[u].etag
                                   /\ disk'.entry[u] = db.entry[u]
                                   /\ \A w \in Urls \ {u} :
                                         polled[w].outcome \in {"nothing", "delivered"}
                                             => disk'.feed[w].last_check = now]_vars

C4_Witness ==
    /\ proc = "running" /\ fpc = "fetch"
    /\ \E w \in Urls \ {cur.url} : polled[w].outcome = "fetch_err"

\* C5: load_pending_feeds returns no feed without subscribers: the feed
\* handle_feed is visiting has a user (no transaction being left open).
C5_NoFeedWithoutSubscribersLoaded ==
    (proc = "running" /\ fpc \in {"fetch", "send"} /\ ~intxn)
        => cur.users # <<>>

\* C6: while the process runs, a stored feed without subscribers is
\* eventually deleted (or the process has stopped).
C6_OrphanFeedEventuallyDeleted ==
    \A u \in Urls :
        (proc = "running" /\ ~intxn /\ disk.feed[u].present
                          /\ disk.subscriber[u] = {})
            ~> (~disk.feed[u].present \/ proc # "running")

\* C7: a failed batch-persist leaves the loop running with last_save_failed
\* set; the flag is set exactly when the latest batch-persist of the run
\* failed, and the process stops on it exactly when two batch-persists in a
\* row have failed.
C7_StopsOnSecondFailedPersist ==
    /\ Len(saves) <= 2
    /\ Len(saves) = 1 => (proc = "running" /\ fpc \in {"sleep", "fetch", "send"})
    /\ proc = "running" => (last_save_failed <=> Len(saves) = 1)
    /\ Len(saves) = 2 <=> (proc = "stopped" /\ stopcause = "persist_twice")

C7_Witness ==
    /\ proc = "running" /\ fpc = "fetch"
    /\ last_save_failed /\ ~intxn
    /\ now = MaxTime

\* C8: the process never stops because the due-feeds query failed or
\* because a command met a store error.
C8_SingleErrorsNotFatal ==
    proc = "stopped" => stopcause \notin {"load_failed", "store_error"}

\* C9: a batch-persist that returns an error leaves nothing behind: the
\* connection sees the tables exactly as before update_feeds_and_entries
\* was called.
C9_FailedMutationLeavesNothing ==
    [][(proc' = "running" /\ Len(saves') > Len(saves)) => db' = db]_vars

TrimmedKey(k) ==
    IF k \in {"max-age", "Max-Age", " max-age"} THEN "max-age" ELSE "other"
\* the positions of the max-age directives of a Cache-Control value
MaxAgeAt(cc) ==
    IF cc.kind # "text" THEN {}
    ELSE {i \in 1..Len(cc.dirs) : TrimmedKey(cc.dirs[i].key) = "max-age"}
\* N seconds, kept within 60 s and 24 h
Within(n) == IF n < 60 THEN 60 ELSE IF n > 86400 THEN 86400 ELSE n
\* a response that carries headers
Answered == response.status \in {"ok", "not_modified"}
\* the tag of an ETag header, if any
TagOf(et) == IF et.kind = "text" THEN et.v ELSE NoEtag

\* C11: when Cache-Control carries one max-age=N directive, at whatever
\* position, find_expiry returns now + N kept within 60 s and 86400 s, and
\* that is the next_fetch of the feed made or polled.
C11_MaxAgeAnyPosition ==
    LET cc == response.headers.cache_control
    IN  (Answered /\ Cardinality(MaxAgeAt(cc)) = 1)
            => LET i == CHOOSE j \in MaxAgeAt(cc) : TRUE
               IN  cc.dirs[i].val = "int"
                       => /\ find_expiry(response.headers, now)
                                = Ok(now + Within(cc.dirs[i].n))
                          /\ fpc \in {"created", "checked"}
                                => cur.next_fetch = now + Within(cc.dirs[i].n)

\* C12: without a max-age directive (no Cache-Control, or one without
\* max-age) a valid Expires date gives the expiry; without an Expires header
\* either, the delay is 600 s.
C12_ExpiresWhenNoMaxAge ==
    LET cc == response.headers.cache_control
        ex == response.headers.expires
    IN  (Answered /\ cc.kind # "nonutf8" /\ MaxAgeAt(cc) = {})
            => /\ (ex.kind = "text" /\ ex.valid)
                      => find_expiry(response.headers, now)
                            = Ok(now + Within(ex.t - now))
               /\ ex.kind = "absent"
                      => find_expiry(response.headers, now) = Ok(now + 600)

\* C13: an expiry in the past (an Expires date before now, or a negative
\* max-age) schedules the next fetch at now + 600 s.
C13_PastExpiryGivesDefault ==
    LET cc == response.headers.cache_control
        ex == response.headers.expires
        past == \/ /\ cc.kind = "absent"
                   /\ ex.kind = "text" /\ ex.valid /\ ex.t < now
                \/ /\ cc.kind = "text" /\ Len(cc.dirs) = 1
                   /\ cc.dirs[1].key = "max-age" /\ cc.dirs[1].val = "int"
                   /\ cc.dirs[1].n < 0
    IN  (Answered /\ past)
            => find_expiry(response.headers, now) = Ok(now + 600)

\* C14: with a malformed caching header (not UTF-8, no date, no integer)
\* Feed::new and Feed::check still succeed on a 200 response with a
\* document, with next_fetch = now + 600 s, check returning the new entries.
C14_MalformedHeaderNeverAborts ==
    LET cc == response.headers.cache_control
        ex == response.headers.expires
        malformed == \/ cc.kind = "nonutf8"
                     \/ /\ cc.kind = "text"
                        /\ cc.dirs[1].key = "max-age" /\ cc.dirs[1].val = "bad"
                     \/ /\ cc.kind = "absent"
                        /\ \/ ex.kind = "nonutf8"
                           \/ ex.kind = "text" /\ ~ex.valid
    IN  (response.status = "ok" /\ response.docok /\ malformed
            /\ response.headers.etag.kind # "nonutf8")
            => /\ fpc \in {"created", "checked"}
               /\ cur.next_fetch = now + 600
               /\ fpc = "checked"
                     => Range(entries) = Range(response.ids) \ cur.seen_entries

\* C15: a poll answered 304 Not Modified succeeds with no entries, keeps
\* seen_entries, sets last_fetch to now and next_fetch to what find_expiry
\* makes of the headers (now + 600 s when it makes nothing of them).
C15_NotModifiedIsSuccess ==
    [][(fpc' \in {"checked", "check_err"} /\ response'.status = "not_modified")
          => LET e == find_expiry(response'.headers, now')
             IN  /\ fpc' = "checked"
                 /\ entries' = <<>>
                 /\ cur'.seen_entries = cur.seen_entries
                 /\ cur'.last_fetch = now'
                 /\ cur'.next_fetch = IF e.ok THEN e.v ELSE now' + 600
                 /\ cur'.url = cur.url /\ cur'.users = cur.users]_vars

C15_Witness ==
    /\ fpc = "checked" /\ response.status = "not_modified"
    /\ cur.seen_entries = {1}
    /\ cur.last_fetch = now /\ now > T0
    /\ cur.next_fetch = now + 3600

\* C16: after a successful poll the etag of the feed is the entity tag of
\* the response.
C16_EtagFollowsResponse ==
    fpc = "checked" => cur.etag = TagOf(response.headers.etag)

\* a next_fetch or next_check scheduled at time t within the accepted range
Scheduled(x, t) == t + min_fetch_delay <= x /\ x <= t + max_fetch_delay
\* the dispatch loop took a step from the head of its loop
CycleStarts ==
    /\ proc = "running" /\ proc' = "running"
    /\ fpc \in {"start", "sleep"}
    /\ UNCHANGED UpdatesVars
\* the feed of u is stored and due before the clock stops, and the cycle, if
\* one is under way, has not polled it yet
DueSoon(u) ==
    /\ proc = "running"
    /\ db.feed[u].present /\ db.feed[u].next_check < MaxTime
    /\ fpc = "sleep" \/ polled[u].outcome \in {"none", "loaded"}
\* the feed of u is being polled, or the process has stopped
BeingPolled(u) == proc # "running" \/ (fpc \in {"fetch", "send"} /\ cur.url = u)

ConnAfter == Conn(db', disk', intxn')

\* C18: a feed record persisted with add_feed at time now is stored with
\* next_check = its next_fetch as an absolute time (now at the earliest);
\* load_pending_feeds at a time after next_check returns one record of that
\* url, with the same seen_entries, the same subscribers, the same etag and
\* last_fetch, and with next_fetch = next_check; at an earlier time it
\* returns none.
C18_AddThenLoadRoundTrip ==
    [][(msg.cmd = "add_feed" /\ reply = "ok" /\ msg'.cmd = "load" /\ reply' = "ok")
          => LET nc == db.feed[cur.url].next_check
                 got == {h \in feeds' : h.url = cur.url}
             IN  /\ nc = Max(cur.next_fetch, now)
                 /\ nc < now' => Cardinality(got) = 1
                 /\ nc >= now' => got = {}
                 /\ \A h \in got :
                       /\ h.seen_entries = cur.seen_entries
                       /\ Range(h.users) = Range(cur.users)
                       /\ h.etag = cur.etag
                       /\ h.last_fetch = cur.last_fetch
                       /\ h.next_fetch = nc]_vars

C18_Witness ==
    /\ msg.cmd = "load" /\ reply = "ok"
    /\ cur.url = "u1" /\ cur.seen_entries = {1, 2} /\ cur.users = <<"b", "a">>
    /\ cur.etag = "e1" /\ cur.next_fetch = T0 + min_fetch_delay
    /\ \E h \in feeds :
          /\ h.url = "u1" /\ h.seen_entries = {1, 2} /\ Range(h.users) = {"a", "b"}
          /\ h.etag = "e1" /\ h.next_fetch = T0 + min_fetch_delay

\* C19: try_del_subscriber(url, user) returns true exactly when the user
\* was a subscriber of the url before the call; afterwards the user is no
\* subscriber of it and get_user_feeds(user) does not list it; when it
\* returns false the store is unchanged; no feed row, no entry row and no
\* other subscription changes.
C19_DelSubscriber ==
    [][(msg'.cmd = "try_del_subscriber" /\ reply' \in {"true", "false"})
          => LET u == msg'.url
                 x == msg'.user
             IN  /\ reply' = "true" <=> (db.feed[u].present /\ x \in db.subscriber[u])
                 /\ x \notin db'.subscriber[u]
                 /\ u \notin get_user_feeds(ConnAfter, x, NoFault).v
                 /\ reply' = "false" => (db' = db /\ disk' = disk)
                 /\ db'.feed = db.feed /\ db'.entry = db.entry
                 /\ disk'.feed = disk.feed /\ disk'.entry = disk.entry
                 /\ \A v \in Urls, y \in Users :
                       (v # u \/ y # x)
                           => /\ y \in db'.subscriber[v] <=> y \in db.subscriber[v]
                              /\ get_user_feeds(ConnAfter, y, NoFault).v \ {u}
                                    = get_user_feeds(TheConn, y, NoFault).v \ {u}]_vars

C19_Witness ==
    /\ msg = Call("try_del_subscriber", "u1", "a") /\ reply = "true"
    /\ db.subscriber["u1"] = {"b"} /\ db.subscriber["u2"] = {"b"}
    /\ db.feed["u1"].present /\ db.entry["u1"] = {1}
    /\ disk = db

\* C20: the feed table holds one row per url and the subscriber table one
\* row per feed and user (the UNIQUE constraints of the schema: the tables
\* are keyed so).  An /add of a url that is stored starts no fetch and
\* changes nothing but the subscriber rows of that url, to which it adds the
\* sender at most; with a sender who is a subscriber already it changes
\* nothing.  A feed row appears only in the /add of a url that is not
\* stored, after Feed::new succeeded on a response, and it is the record
\* Feed::new made.
C20_AddOnlySubscribesWhenStored ==
    [][/\ (upc = "add_sent" /\ upc' # "add_sent" /\ proc' = "running"
              /\ db.feed[msg.url].present)
          => /\ upc' # "add_fetch"
             /\ db'.feed = db.feed /\ db'.entry = db.entry
             /\ db'.subscriber \in
                   {db.subscriber,
                    [db.subscriber EXCEPT ![msg.url] = @ \cup {msg.user}]}
             /\ reply' = "add_ok" => msg.user \in db'.subscriber[msg.url]
             /\ msg.user \in db.subscriber[msg.url] => (db' = db /\ disk' = disk)
       /\ \A u \in Urls :
             (~db.feed[u].present /\ db'.feed[u].present)
                => /\ upc = "add_fetch" /\ msg.url = u /\ reply' = "add_ok"
                   /\ \E resp \in NewResponses :
                         LET n == Feed_new(resp, u, msg.user, now)
                         IN  /\ resp.status = "ok" /\ resp.docok /\ n.ok
                             /\ db'.feed[u] = Row(n.v.last_fetch, n.v.next_fetch,
                                                  n.v.etag)
                             /\ db'.entry[u] = n.v.seen_entries
                             /\ db'.subscriber[u] = {msg.user}]_vars

C20_Witness ==
    /\ upc = "reply" /\ reply = "add_ok" /\ nmsg = 2
    /\ db.feed["u1"].present /\ db.entry["u1"] = {1}
    /\ db.subscriber["u1"] = {"a", "b"}
    /\ disk = db

\* a cycle is under way and u is one of the feeds it loaded
InCycle(u) ==
    proc = "running" /\ fpc \in {"fetch", "send"} /\ polled[u].outcome # "none"
\* the step ends the cycle with a batch-persist that committed
PersistCommits == proc' = "running" /\ fpc' = "sleep" /\ saves' = <<>>
\* the process stops in this step
Stops == proc = "running" /\ proc' = "stopped"
\* what load_pending_feeds returns at time t in a process started on the
\* file d: main runs cleanup_feeds first
DueAfterRestart(d, t) ==
    PendingUrls(cleanup_feeds(Conn(d, d, FALSE), NoFault).c.db, t)

\* C21 as stated: when the process stops in a cycle before the batch-persist
\* has committed, the stored feed row and entry rows of every feed of the
\* cycle are as they were, and each of these feeds is returned as due after
\* the restart.
C21_UnpersistedCycleReevaluated ==
    [][\A u \in Urls :
          (InCycle(u) /\ Stops)
              => /\ disk'.feed[u] = disk.feed[u]
                 /\ disk'.entry[u] = disk.entry[u]
                 /\ u \in DueAfterRestart(disk', now')]_vars

\* C21, amended: in a cycle, no step before the batch-persist commits
\* changes the stored feed row or entry rows of a feed of the cycle, a
\* failed batch-persist and the stop of the process included; and when the
\* process stops there, each of these feeds that still has a subscriber is
\* returned as due after the restart, with the entries it had.
C21_UnpersistedCycleReevaluatedIfSubscribed ==
    [][\A u \in Urls :
          /\ (InCycle(u) /\ ~PersistCommits)
                => /\ disk'.feed[u] = disk.feed[u]
                   /\ disk'.entry[u] = disk.entry[u]
                   /\ disk.feed[u].present
                   /\ \A e \in Range(polled[u].ents) : e \notin disk'.entry[u]
          /\ (InCycle(u) /\ Stops /\ disk'.subscriber[u] # {})
                => u \in DueAfterRestart(disk', now')]_vars

C21_Witness ==
    /\ proc = "stopped" /\ stopcause = "persist_twice" /\ now = MaxTime
    /\ disk.feed["u1"] = Row(T0, T0 + min_fetch_delay, "e1")
    /\ disk.entry["u1"] = {1} /\ disk.subscriber["u1"] = {"a"}
    /\ "u1" \in DueAfterRestart(disk, now)

\* C22: in the file, the entry rows of a feed only grow while its feed row
\* exists: no call of try_add_subscriber, try_del_subscriber,
\* load_pending_feeds, cleanup_feeds or update_feeds_and_entries, whether it
\* succeeds or fails and whatever records it is given (reset ones included),
\* removes an entry row of a feed that is stored before and after it, and
\* add_feed removes none of another feed; what the connection sees after a
\* call that succeeded has the same property.
C22_StoredEntriesOnlyGrow ==
    [][\A u \in Urls :
          (msg'.cmd = "add_feed" => u # msg'.url)
              => /\ (disk.feed[u].present /\ disk'.feed[u].present)
                       => disk.entry[u] \subseteq disk'.entry[u]
                 /\ (reply' # "err" /\ db.feed[u].present /\ db'.feed[u].present)
                       => db.entry[u] \subseteq db'.entry[u]
                 /\ ~disk'.feed[u].present => disk'.entry[u] = {}]_vars

C22_Witness ==
    /\ msg = Call("update_feeds_and_entries", "u1", "none") /\ reply = "ok"
    /\ cur.last_fetch = EPOCH /\ cur.seen_entries = {}
    /\ disk.feed["u1"].present /\ disk.feed["u1"].last_check = EPOCH
    /\ disk.entry["u1"] = {1}

\* the outcomes after which handle_feed counts no failure
Reached == {"ok", "blocked"}

\* every send of the entry failed
AllFailed(outs) == \A i \in 1..Len(outs) : outs[i] \notin Reached

\* the feed record handle_feed pushed last
LastPushed == updated_feeds'[Len(updated_feeds')]

\* a step of handle_feed out of its wait for send_message
SendReturns ==
    /\ proc = "running" /\ fpc = "send"
    /\ <<proc, fpc, ei, ui>>' # <<proc, fpc, ei, ui>>

\* C23: when the send to the last subscriber of an entry returns, and the
\* process goes on, the feed is reset exactly when every send of that entry
\* (the earlier ones and this one) ended in an error other than
\* USER_IS_BLOCKED; fail_count is the number of such sends so far; an entry
\* with a send that succeeded or found the user blocked is delivered: the
\* loop goes on with the next entry, or after the last one keeps the feed as
\* polled; an entry of a feed loaded without subscribers resets the feed.
C23_ResetExactlyWhenAllFailed ==
    [][/\ \A out \in SendOutcomes :
             (SendReturns /\ SendDoneWith(out)) =>
                 LET outs == Append(sends, out)
                     u == cur.url
                 IN  /\ Len(outs) = ui
                     /\ ui < Len(cur.users) =>
                          /\ sends' = outs
                          /\ fail_count' = Cardinality({i \in 1..Len(outs) :
                                                          outs[i] \notin Reached})
                     /\ (ui = Len(cur.users) /\ proc' = "running") =>
                          /\ polled'[u].outcome = "reset" <=> AllFailed(outs)
                          /\ (feeds # {} /\ AllFailed(outs)) =>
                                /\ LastPushed.url = u
                                /\ LastPushed.last_fetch = EPOCH
                                /\ LastPushed.etag = NoEtag
                          /\ (feeds # {} /\ ~AllFailed(outs) /\ ei = Len(entries)) =>
                                /\ polled'[u].outcome = "delivered"
                                /\ LastPushed = cur
                          /\ (~AllFailed(outs) /\ ei < Len(entries)) =>
                                /\ polled'[u].outcome = "sending"
                                /\ ei' = ei + 1 /\ ui' = 1 /\ fail_count' = 0
                                /\ cur' = cur
       /\ (proc = "running" /\ fpc = "fetch" /\ proc' = "running"
             /\ polled'[cur.url].outcome \in {"reset", "sending", "delivered"})
            => (polled'[cur.url].outcome = "reset" <=> cur.users = <<>>)]_vars

\* the first of two subscribers has blocked the bot: no failure is counted
\* and the entry is being sent to the second one
C23_Witness ==
    /\ proc = "running" /\ fpc = "send"
    /\ Len(cur.users) = 2 /\ ui = 2
    /\ sends = <<"blocked">> /\ fail_count = 0
    /\ polled[cur.url].outcome = "sending"

\* C24: a call of update_feeds_and_entries, whatever records it is given,
\* leaves every subscriber row as it is, creates and deletes no feed row, and
\* leaves the rows of the urls it was not given; when it fails the file is
\* as before; when it succeeds the row of each record whose url is stored
\* holds the record's last_fetch, next_fetch_timestamp and etag, and its
\* entry rows are the earlier ones and the record's seen_entries.  So the
\* subscriber rows try_add_subscriber or try_del_subscriber wrote since the
\* records were loaded are the subscriber rows after the call.
C24_PersistLeavesSubscribers ==
    [][msg'.cmd = "update_feeds_and_entries"
          => /\ disk'.subscriber = disk.subscriber
             /\ db'.subscriber = db.subscriber
             /\ \A u \in Urls :
                   /\ disk'.feed[u].present <=> disk.feed[u].present
                   /\ db'.feed[u].present <=> db.feed[u].present
                   /\ (\A g \in feeds' : g.url # u)
                         => /\ disk'.feed[u] = disk.feed[u]
                            /\ disk'.entry[u] = disk.entry[u]
             /\ reply' = "err" => disk' = disk
             /\ reply' = "ok"
                   => /\ db' = disk'
                      /\ \A g \in feeds' :
                            disk.feed[g.url].present
                               => /\ disk'.feed[g.url]
                                        = Row(g.last_fetch,
                                              next_fetch_timestamp(g, now), g.etag)
                                  /\ disk'.entry[g.url]
                                        = disk.entry[g.url] \cup g.seen_entries]_vars

\* a left u1 after the record of u1 was made with a as its user: the call
\* stored the record's times and etag and a has no row
C24_Witness ==
    /\ msg = Call("update_feeds_and_entries", "u1", "none") /\ reply = "ok"
    /\ cur.users = <<"a">> /\ cur.etag = "e2"
    /\ disk.feed["u1"].present /\ disk.feed["u1"].etag = "e2"
    /\ disk.subscriber["u1"] = {}
    /\ ~disk.feed["u2"].present \/ disk.subscriber["u2"] = {"b"}

\* the feeds of the cycle that are not yet pushed to updated_feeds
InHand(fs, c) == fs \cup (IF c.url = NoUrl THEN {} ELSE {c})

\* handle_feed starts to wait for a send_message
SendStarts ==
    /\ proc' = "running" /\ fpc' = "send"
    /\ <<fpc, ei, ui>>' # <<fpc, ei, ui>>

====
